---- MODULE Spec2Model ----
(***************************************************************************)
(* A model of the agent SDK of agentkit (packages/sdk/src): the agent      *)
(* builder, its send() tool-calling loop, stream(), and the schema adapter *)
(* that turns a tool's parameter schema into a function declaration.       *)
(*                                                                         *)
(* JavaScript runs one task at a time: the code between two awaits is one  *)
(* atomic step.  send() is therefore cut at its awaits: the provider call  *)
(* (openai.chat.completions.create) and the tool call (tool.execute).      *)
(***************************************************************************)
EXTENDS Integers, Sequences, FiniteSets, TLC

(***************************************************************************)
(* Bounds of the model.                                                    *)
(***************************************************************************)
\* the provider requests at most this many tool calls during one send()
MaxToolCalls == 3
\* config() is called with at most this many entries
MaxConfigEntries == 2
\* next() is called at most this many times on the iterator of stream()
MaxNextCalls == 2
\* a schema spec has at most this many parameters
MaxParams == 2
\* log() is called at most this many times on a DevPanel
MaxLogCalls == 3
\* in the runs with fairness the provider requests at most this many tool
\* calls during one send()
MaxLiveCalls == 2

(***************************************************************************)
(* Optional values: a field declared `x?: T`, or a value that is null.     *)
(***************************************************************************)
None == <<>>

Some(x) == <<x>>

IsSome(o) == o # <<>>

Val(o) == o[1]

(***************************************************************************)
(* JavaScript values, as far as the SDK looks into them.  Every value is a *)
(* record of the same shape: a tag t, a string s, a number n, and for an   *)
(* object the ordered list of its own enumerable entries (for an array,    *)
(* its items under empty keys).                                            *)
(***************************************************************************)
Str(s) == [t |-> "string", s |-> s, n |-> 0, kids |-> <<>>]

Num(n) == [t |-> "number", s |-> "", n |-> n, kids |-> <<>>]

NaN == [t |-> "NaN", s |-> "", n |-> 0, kids |-> <<>>]

Undefined == [t |-> "undefined", s |-> "", n |-> 0, kids |-> <<>>]

\* the outcome of an expression that throws a TypeError instead of giving a
\* value
Thrown == [t |-> "thrown", s |-> "TypeError", n |-> 0, kids |-> <<>>]

Entry(k, v) == [key |-> k, value |-> v]

Obj(entries) == [t |-> "object", s |-> "", n |-> 0, kids |-> entries]

Arr(items) == [t |-> "array", s |-> "", n |-> 0,
               kids |-> [i \in 1..Len(items) |-> Entry("", items[i])]]

\* Object.keys(o)
Keys(o) == [i \in 1..Len(o.kids) |-> o.kids[i].key]

\* `k in o`
HasKey(o, k) == \E i \in 1..Len(o.kids) : o.kids[i].key = k

\* o[k], for a key the object has
Get(o, k) == o.kids[CHOOSE i \in 1..Len(o.kids) : o.kids[i].key = k].value

(***************************************************************************)
(* Zod validators, as the objects the adapter inspects: an object with a   *)
(* _def whose typeName names the outermost wrapper.  .optional() and       *)
(* .nullable() wrap the validator they are called on.                      *)
(***************************************************************************)
ZodType(typeName) == Obj(<<Entry("_def", Obj(<<Entry("typeName", Str(typeName))>>))>>)

ZodWrap(typeName, inner) ==
    Obj(<<Entry("_def", Obj(<<Entry("typeName", Str(typeName)),
                              Entry("innerType", inner)>>))>>)

ZodString == ZodType("ZodString")

ZodNumber == ZodType("ZodNumber")

ZodOptional(inner) == ZodWrap("ZodOptional", inner)

ZodNullable(inner) == ZodWrap("ZodNullable", inner)

\* the validator was built with .optional() somewhere in its chain
RECURSIVE MarkedOptional(_)
MarkedOptional(v) ==
    LET def == Get(v, "_def")
    IN  \/ Get(def, "typeName").s = "ZodOptional"
        \/ /\ HasKey(def, "innerType")
           /\ MarkedOptional(Get(def, "innerType"))

\* zodToJsonSchema(value, {$refStrategy: 'none'}): the JSON Schema of the
\* validator, under a top-level $schema key
RECURSIVE ZodJson(_)
ZodJson(v) ==
    LET def == Get(v, "_def")
        tn  == Get(def, "typeName").s
    IN  CASE tn = "ZodString"   -> <<Entry("type", Str("string"))>>
          [] tn = "ZodNumber"   -> <<Entry("type", Str("number"))>>
          [] tn = "ZodOptional" -> ZodJson(Get(def, "innerType"))
          [] tn = "ZodNullable" ->
                <<Entry("anyOf", Arr(<<Obj(ZodJson(Get(def, "innerType"))),
                                       Obj(<<Entry("type", Str("null"))>>)>>))>>
          [] OTHER -> <<>>

\* the library reads typeName off the validator's _def: a _def that is
\* undefined makes it throw
zodToJsonSchema(v) ==
    IF Get(v, "_def").t = "undefined"
    THEN Thrown
    ELSE Obj(<<Entry("$schema", Str("http://json-schema.org/draft-07/schema#"))>>
             \o ZodJson(v))

\* const { $schema, ...cleanSchema } = jsonSchema
CleanSchema(json) ==
    Obj(SelectSeq(json.kids, LAMBDA e : e.key # "$schema"))

(***************************************************************************)
(* convertSchemaToJsonSchema                                               *)
(***************************************************************************)
\* value && typeof value === 'object' && '_def' in value
IsZodSchema(value) == value.t \in {"object", "array"} /\ HasKey(value, "_def")

\* one property of the output: the converted validator, or the value as is
ConvertProperty(value) ==
    IF IsZodSchema(value)
    THEN LET jsonSchema == zodToJsonSchema(value)
         IN  IF jsonSchema = Thrown THEN Thrown ELSE CleanSchema(jsonSchema)
    ELSE value

\* whether the loop pushes the key on `required`
PushesRequired(value) ==
    /\ IsZodSchema(value)
    /\ Get(Get(value, "_def"), "typeName").s # "ZodOptional"

\* the adapter without its test for the empty schema: {} is wrapped too
convertSchemaWrappingEmpty(schema) ==
    LET properties == [i \in 1..Len(schema.kids) |->
                          Entry(schema.kids[i].key,
                                ConvertProperty(schema.kids[i].value))]
        requiredEntries == SelectSeq(schema.kids,
                                     LAMBDA e : PushesRequired(e.value))
        required == [i \in 1..Len(requiredEntries) |->
                        Str(requiredEntries[i].key)]
    IN  Obj(<<Entry("type", Str("object")),
              Entry("properties", Obj(properties))>>
            \o (IF Len(required) > 0
                THEN <<Entry("required", Arr(required))>>
                ELSE <<>>))

\* Object.keys of an undefined schema throws, and so does the loop when a
\* validator's conversion throws: nothing here catches
convertSchemaToJsonSchema(schema) ==
    IF schema.t = "undefined"
    THEN Thrown
    ELSE IF Len(Keys(schema)) = 0
    THEN schema
    ELSE LET properties == [i \in 1..Len(schema.kids) |->
                               Entry(schema.kids[i].key,
                                     ConvertProperty(schema.kids[i].value))]
             requiredEntries == SelectSeq(schema.kids,
                                          LAMBDA e : PushesRequired(e.value))
             required == [i \in 1..Len(requiredEntries) |->
                             Str(requiredEntries[i].key)]
         IN  IF \E i \in 1..Len(properties) : properties[i].value = Thrown
             THEN Thrown
             ELSE Obj(<<Entry("type", Str("object")),
                        Entry("properties", Obj(properties))>>
                      \o (IF Len(required) > 0
                          THEN <<Entry("required", Arr(required))>>
                          ELSE <<>>))

convertToOpenAITool(tool) ==
    [type |-> "function",
     name |-> tool.name,
     description |-> tool.description,
     parameters |-> convertSchemaToJsonSchema(tool.schema)]

(***************************************************************************)
(* JSON.parse of the argument strings the provider sends, and              *)
(* JSON.stringify of the values the tools return.                          *)
(***************************************************************************)
ArgsAB == "{\"a\":2,\"b\":3}"

ArgsQuery == "{\"query\":\"x\"}"

ArgsEmpty == "{}"

ArgsText == "{\"a\":\"2\",\"b\":3}"

ArgsBad == "{\"a\":"

\* a parser that takes text it cannot read as the empty object
ParseJSONLenient(text) ==
    CASE text = ArgsAB    -> [ok |-> TRUE,
                              value |-> Obj(<<Entry("a", Num(2)), Entry("b", Num(3))>>)]
      [] text = ArgsQuery -> [ok |-> TRUE, value |-> Obj(<<Entry("query", Str("x"))>>)]
      [] text = ArgsText  -> [ok |-> TRUE,
                              value |-> Obj(<<Entry("a", Str("2")), Entry("b", Num(3))>>)]
      [] OTHER            -> [ok |-> TRUE, value |-> Obj(<<>>)]

\* JSON.parse(text): the value, or the SyntaxError it throws
ParseJSON(text) ==
    CASE text = ArgsAB    -> [ok |-> TRUE,
                              value |-> Obj(<<Entry("a", Num(2)), Entry("b", Num(3))>>)]
      [] text = ArgsQuery -> [ok |-> TRUE, value |-> Obj(<<Entry("query", Str("x"))>>)]
      [] text = ArgsEmpty -> [ok |-> TRUE, value |-> Obj(<<>>)]
      [] text = ArgsText  -> [ok |-> TRUE,
                              value |-> Obj(<<Entry("a", Str("2")), Entry("b", Num(3))>>)]
      [] OTHER            -> [ok |-> FALSE, value |-> Obj(<<>>)]

\* JSON.stringify(value)
Stringify(v) ==
    CASE v.t = "number" -> ToString(v.n)
      [] v.t = "string" -> "\"" \o v.s \o "\""
      [] v.t = "NaN"    -> "null"
      [] v.t = "array" /\ Len(v.kids) = 0  -> "[]"
      [] v.t = "object" /\ Len(v.kids) = 0 -> "{}"
      [] OTHER -> "[object]"

(***************************************************************************)
(* The tools of the runs: add(a, b) of the calculator example and the      *)
(* search tool of the tests.                                               *)
(***************************************************************************)
AddTool ==
    [name |-> "add", description |-> "Add two numbers",
     schema |-> Obj(<<Entry("a", ZodNumber), Entry("b", ZodNumber)>>),
     impl |-> "add"]

SearchTool ==
    [name |-> "search", description |-> "Search the web",
     schema |-> Obj(<<Entry("query", ZodString),
                      Entry("limit", ZodOptional(ZodNumber))>>),
     impl |-> "search"]

\* a tool with a validator whose _def is undefined
BrokenTool ==
    [name |-> "broken", description |-> "Malformed validator",
     schema |-> Obj(<<Entry("q", Obj(<<Entry("_def", Undefined)>>))>>),
     impl |-> "search"]

\* a tool registered without a schema
NoSchemaTool ==
    [name |-> "bare", description |-> "No schema",
     schema |-> Undefined,
     impl |-> "search"]

\* another tool registered under the name `add`
AddStrings ==
    [name |-> "add", description |-> "Join two strings",
     schema |-> Obj(<<Entry("a", ZodString), Entry("b", ZodString)>>),
     impl |-> "join"]

\* String(x) of a number or a string
Text(x) == IF x.t = "number" THEN ToString(x.n) ELSE x.s

\* x + y: the sum of two numbers, the concatenation when one is a string
Plus(x, y) ==
    IF x.t = "number" /\ y.t = "number"
    THEN Num(x.n + y.n)
    ELSE Str(Text(x) \o Text(y))

\* the value tool.execute(args) resolves with, when it resolves; the tools
\* use their arguments as they get them (undefined + undefined is NaN)
Execute(tool, args) ==
    CASE tool.impl = "add" ->
            IF HasKey(args, "a") /\ HasKey(args, "b")
            THEN Plus(Get(args, "a"), Get(args, "b"))
            ELSE NaN
      [] tool.impl = "search" -> Arr(<<>>)
      [] OTHER -> Str(tool.impl)

(***************************************************************************)
(* Model names are strings of characters, so that startsWith is computed.  *)
(***************************************************************************)
GPT4 == <<"g", "p", "t", "-", "4">>

GPT4o == GPT4 \o <<"o">>

GPT35 == <<"g", "p", "t", "-", "3", ".", "5">>

Claude3 == <<"c", "l", "a", "u", "d", "e", "-", "3">>

EmptyName == <<>>

\* a test for the exact name
StartsWithExactly(s, prefix) == s = prefix

\* s.startsWith(prefix)
StartsWith(s, prefix) ==
    /\ Len(s) >= Len(prefix)
    /\ SubSeq(s, 1, Len(prefix)) = prefix

\* ModelConfig values
Params07 == [temperature |-> Some(7), maxTokens |-> Some(100), topP |-> None]

Params02 == [temperature |-> Some(2), maxTokens |-> None, topP |-> Some(9)]

(***************************************************************************)
(* Errors (errors.ts) and the other failures send() passes on.             *)
(***************************************************************************)
Err(name, modelName, toolName) ==
    [name |-> name, modelName |-> modelName, toolName |-> toolName]

UnsupportedModelError(modelName) == Err("UnsupportedModelError", modelName, "")

MissingApiKeyError == Err("MissingApiKeyError", <<>>, "")

ToolNotFoundError(toolName) == Err("ToolNotFoundError", <<>>, toolName)

NotImplementedError == Err("NotImplementedError", <<>>, "")

\* what JSON.parse throws
TypeError == Err("TypeError", <<>>, "")

SyntaxError == Err("SyntaxError", <<>>, "")

\* whatever a tool's execute rejects with
ToolFailure(toolName) == Err("ToolFailure", <<>>, toolName)

\* whatever the provider call rejects with
ProviderFailure == Err("ProviderFailure", <<>>, "")

(***************************************************************************)
(* State.                                                                  *)
(***************************************************************************)
VARIABLES
    _name,          \* AgentBuilder._name: string
    _modelName,     \* AgentBuilder._modelName?: string
    _modelConfig,   \* AgentBuilder._modelConfig?: ModelConfig
    _instructions,  \* AgentBuilder._instructions?: string
    _tools,         \* AgentBuilder._tools?: Tool[]
    _config,        \* AgentBuilder._config?: Record<string, string>
    sends,          \* the send() calls: locals, position and outcome of each
    provider,       \* every request handed to chat.completions.create, in order
    iter,           \* the iterator returned by stream()
    schemaIn,       \* the tool handed to convertToOpenAITool
    schemaOut,      \* the declaration it returned
    patterns,       \* the agents made by agent(), and what the first one showed
    devPanel,       \* globalDevPanel: the DevPanel, its fields
    panelUse        \* the calls made on the DevPanel and what they returned

vars == <<_name, _modelName, _modelConfig, _instructions, _tools, _config,
          sends, provider, iter, schemaIn, schemaOut, patterns, devPanel, panelUse>>

agentVars == <<_name, _modelName, _modelConfig, _instructions, _tools, _config>>

schemaVars == <<schemaIn, schemaOut>>

panelVars == <<devPanel, panelUse>>

\* the send() calls of a run
CallIds == {1, 2}

(***************************************************************************)
(* Conversation entries, tool calls and provider responses.                *)
(***************************************************************************)
Msg(role, content, tool_calls, tool_call_id) ==
    [role |-> role, content |-> content,
     tool_calls |-> tool_calls, tool_call_id |-> tool_call_id]

SystemMsg(text) == Msg("system", Some(text), None, None)

UserMsg(text) == Msg("user", Some(text), None, None)

AssistantMsg(content, tool_calls) == Msg("assistant", content, Some(tool_calls), None)

ToolMsg(content, id) == Msg("tool", Some(content), None, Some(id))

\* one entry of choice.message.tool_calls; for type 'function', name and
\* arguments are function.name and function.arguments
ToolCall(id, type, name, arguments) ==
    [id |-> id, type |-> type, name |-> name, arguments |-> arguments]

\* the locals of a send() call that has not been made
IdleSend ==
    [pc |-> "idle", message |-> "", modelName |-> <<>>, tools |-> None,
     messages |-> <<>>, response |-> None, i |-> 0,
     result |-> None, error |-> None,
     responses |-> <<>>, execs |-> <<>>, snapshot |-> None]

\* the name the agents of the runs are made with
AgentName == "assistant"

\* one agent, made by agent(name); no AgentConfig under comparison
OneAgent == [kind |-> "name", input |-> None, first |-> None]

\* nothing was called on the DevPanel
NoPanelUse == [calls |-> 0, passed |-> <<>>, threw |-> FALSE, printed |-> <<>>]

Init ==
    /\ _name = AgentName
    /\ _modelName = None
    /\ _modelConfig = None
    /\ _instructions = None
    /\ _tools = None
    /\ _config = None
    /\ sends = [c \in CallIds |-> IdleSend]
    /\ provider = <<>>
    /\ iter = [state |-> "none", settled |-> <<>>]
    /\ schemaIn = None
    /\ schemaOut = None
    /\ patterns = OneAgent
    /\ devPanel = None
    /\ panelUse = NoPanelUse

(***************************************************************************)
(* The setters.                                                            *)
(***************************************************************************)
model(modelName, config) ==
    /\ _modelName' = Some(modelName)
    /\ _modelConfig' = config
    /\ UNCHANGED <<_name, _instructions, _tools, _config, sends, provider, iter, schemaVars, patterns, panelVars>>

instructions(text) ==
    /\ _instructions' = Some(text)
    /\ UNCHANGED <<_name, _modelName, _modelConfig, _tools, _config, sends, provider, iter, schemaVars, patterns, panelVars>>

tools(toolList) ==
    /\ _tools' = Some(toolList)
    /\ UNCHANGED <<_name, _modelName, _modelConfig, _instructions, _config, sends, provider, iter, schemaVars, patterns, panelVars>>

\* configEntries.reduce((acc, entry) => { acc[entry.key] = entry.value; ... }, {})
RECURSIVE ReduceConfig(_, _)
ReduceConfig(acc, entries) ==
    IF entries = <<>>
    THEN acc
    ELSE LET e == Head(entries)
         IN  ReduceConfig([k \in DOMAIN acc \cup {e.key} |->
                              IF k = e.key THEN e.value ELSE acc[k]],
                          Tail(entries))

\* a config() that folds the entries into the map the agent already has
configMerging(configEntries) ==
    /\ _config' = Some(ReduceConfig(IF IsSome(_config) THEN Val(_config)
                                                       ELSE [k \in {} |-> ""],
                                    configEntries))
    /\ UNCHANGED <<_name, _modelName, _modelConfig, _instructions, _tools, sends, provider, iter, schemaVars, patterns, panelVars>>

config(configEntries) ==
    /\ _config' = Some(ReduceConfig([k \in {} |-> ""], configEntries))
    /\ UNCHANGED <<_name, _modelName, _modelConfig, _instructions, _tools, sends, provider, iter, schemaVars, patterns, panelVars>>

(***************************************************************************)
(* send()                                                                  *)
(***************************************************************************)
\* this._modelName || 'gpt-4'
EffectiveModelName(name) ==
    IF IsSome(name) /\ Val(name) # <<>> THEN Val(name) ELSE GPT4

\* this._config?.OPENAI_API_KEY
ApiKey(cfg) ==
    IF IsSome(cfg) /\ "OPENAI_API_KEY" \in DOMAIN Val(cfg)
    THEN Some(Val(cfg)["OPENAI_API_KEY"])
    ELSE None

\* a string tested for being set only: '' passes
TruthyWhenSet(o) == IsSome(o)

\* a string tested as a condition: undefined and '' are falsy
Truthy(o) == IsSome(o) /\ Val(o) # ""

\* a conversion that catches what the adapter throws and declares the tool
\* with an empty schema
ConvertToolsSwallowing(toolList) ==
    IF IsSome(toolList)
    THEN Some([i \in 1..Len(Val(toolList)) |->
                  LET declaration == convertToOpenAITool(Val(toolList)[i])
                  IN  IF declaration.parameters = Thrown
                      THEN [declaration EXCEPT !.parameters = Obj(<<>>)]
                      ELSE declaration])
    ELSE None

\* this._tools?.map(convertToOpenAITool); a declaration whose parameters
\* are Thrown stands for the call that threw
ConvertTools(toolList) ==
    IF IsSome(toolList)
    THEN Some([i \in 1..Len(Val(toolList)) |-> convertToOpenAITool(Val(toolList)[i])])
    ELSE None

\* the map over the tools threw
Threw(declarations) ==
    /\ IsSome(declarations)
    /\ \E i \in 1..Len(Val(declarations)) : Val(declarations)[i].parameters = Thrown

\* a request that passes the converted tool list on as it is
RequestWithEmptyTools(st, modelConfig) ==
    [model |-> st.modelName,
     messages |-> st.messages,
     tools |-> st.tools,
     temperature |-> IF IsSome(modelConfig) THEN Val(modelConfig).temperature ELSE None,
     max_tokens |-> IF IsSome(modelConfig) THEN Val(modelConfig).maxTokens ELSE None,
     top_p |-> IF IsSome(modelConfig) THEN Val(modelConfig).topP ELSE None]

\* the argument of openai.chat.completions.create
Request(st, modelConfig) ==
    [model |-> st.modelName,
     messages |-> st.messages,
     tools |-> IF IsSome(st.tools) /\ Len(Val(st.tools)) > 0 THEN st.tools ELSE None,
     temperature |-> IF IsSome(modelConfig) THEN Val(modelConfig).temperature ELSE None,
     max_tokens |-> IF IsSome(modelConfig) THEN Val(modelConfig).maxTokens ELSE None,
     top_p |-> IF IsSome(modelConfig) THEN Val(modelConfig).topP ELSE None]

\* a lookup that falls back to the first tool for an unknown name
FindToolOrFirst(toolList, name) ==
    IF IsSome(toolList) /\ Len(Val(toolList)) > 0
    THEN IF \E i \in 1..Len(Val(toolList)) : Val(toolList)[i].name = name
         THEN Some(Val(toolList)[CHOOSE i \in 1..Len(Val(toolList)) :
                                    Val(toolList)[i].name = name])
         ELSE Some(Val(toolList)[1])
    ELSE None

\* this._tools?.find((t) => t.name === name)
FindTool(toolList, name) ==
    IF IsSome(toolList) /\ \E i \in 1..Len(Val(toolList)) : Val(toolList)[i].name = name
    THEN LET l == Val(toolList)
             first == CHOOSE i \in 1..Len(l) :
                          /\ l[i].name = name
                          /\ \A j \in 1..(i - 1) : l[j].name # name
         IN  Some(l[first])
    ELSE None

\* a system entry for instructions that were set, even to ''
InitialMessagesWhenSet(text, message) ==
    (IF IsSome(text) THEN <<SystemMsg(Val(text))>> ELSE <<>>) \o <<UserMsg(message)>>

\* the conversation before the first provider call
InitialMessages(text, message) ==
    (IF Truthy(text) THEN <<SystemMsg(Val(text))>> ELSE <<>>) \o <<UserMsg(message)>>

\* the agent's fields when send() is called (kept for the properties only)
AgentFields ==
    [modelName |-> _modelName, modelConfig |-> _modelConfig,
     instructions |-> _instructions, tools |-> _tools, config |-> _config]

\* an error caught and turned into a response without content
ResolvedWithoutContent(st, err) ==
    [st EXCEPT !.pc = "resolved",
               !.result = Some([content |-> "",
                                metadata |-> [id |-> 0, model |-> <<>>, usage |-> 0,
                                              finishReason |-> err.name]])]

\* throw err: the promise of send() is rejected with it
Rejected(st, err) == [st EXCEPT !.pc = "rejected", !.error = Some(err)]

\* a send() whose conversation buffer is kept on the agent: it starts from
\* the entries of the calls made before it
SendStartSharedBuffer(message) ==
    LET modelName == EffectiveModelName(_modelName)
        apiKey == ApiKey(_config)
        st0 == [IdleSend EXCEPT !.message = message,
                                !.snapshot = Some(AgentFields)]
        kept == IF sends[1].pc # "idle" THEN sends[1].messages ELSE sends[2].messages
    IN  IF ~StartsWith(modelName, GPT4)
        THEN Rejected(st0, UnsupportedModelError(modelName))
        ELSE IF ~Truthy(apiKey)
        THEN Rejected(st0, MissingApiKeyError)
        ELSE IF Threw(ConvertTools(_tools))
        THEN Rejected(st0, TypeError)
        ELSE [st0 EXCEPT
                 !.pc = "awaitProvider",
                 !.modelName = modelName,
                 !.messages = kept \o InitialMessages(_instructions, message),
                 !.tools = ConvertTools(_tools)]

\* a send() that tests the API key before the model name
SendStartKeyFirst(message) ==
    LET modelName == EffectiveModelName(_modelName)
        apiKey == ApiKey(_config)
        st0 == [IdleSend EXCEPT !.message = message,
                                !.snapshot = Some(AgentFields)]
    IN  IF ~Truthy(apiKey)
        THEN Rejected(st0, MissingApiKeyError)
        ELSE IF ~StartsWith(modelName, GPT4)
        THEN Rejected(st0, UnsupportedModelError(modelName))
        ELSE IF Threw(ConvertTools(_tools))
        THEN Rejected(st0, TypeError)
        ELSE [st0 EXCEPT
                 !.pc = "awaitProvider",
                 !.modelName = modelName,
                 !.messages = InitialMessages(_instructions, message),
                 !.tools = ConvertTools(_tools)]

\* the steps of send() up to its first await
SendStart(message) ==
    LET modelName == EffectiveModelName(_modelName)
        apiKey == ApiKey(_config)
        st0 == [IdleSend EXCEPT !.message = message,
                                !.snapshot = Some(AgentFields)]
    IN  IF ~StartsWith(modelName, GPT4)
        THEN Rejected(st0, UnsupportedModelError(modelName))
        ELSE IF ~Truthy(apiKey)
        THEN Rejected(st0, MissingApiKeyError)
        ELSE IF Threw(ConvertTools(_tools))
        THEN Rejected(st0, TypeError)
        ELSE [st0 EXCEPT
                 !.pc = "awaitProvider",
                 !.modelName = modelName,
                 !.messages = InitialMessages(_instructions, message),
                 !.tools = ConvertTools(_tools)]

\* a loop that starts every execute of the turn without awaiting any of them
RECURSIVE DispatchNoAwait(_, _, _)
DispatchNoAwait(st, i, toolList) ==
    LET calls == Val(Val(st.response).tool_calls)
    IN  IF i > Len(calls)
        THEN [st EXCEPT !.pc = "awaitProvider", !.i = 0]
        ELSE LET toolCall == calls[i]
                 found == FindTool(toolList, toolCall.name)
                 args == ParseJSON(toolCall.arguments)
             IN  IF toolCall.type # "function"
                 THEN DispatchNoAwait(st, i + 1, toolList)
                 ELSE IF ~IsSome(found)
                 THEN Rejected([st EXCEPT !.i = i], ToolNotFoundError(toolCall.name))
                 ELSE IF ~args.ok
                 THEN Rejected([st EXCEPT !.i = i], SyntaxError)
                 ELSE DispatchNoAwait(
                          [st EXCEPT
                              !.i = i,
                              !.execs = Append(@, [id |-> toolCall.id,
                                                   round |-> Len(st.responses),
                                                   tool |-> Val(found),
                                                   args |-> args.value,
                                                   state |-> "pending",
                                                   value |-> NaN])],
                          i + 1, toolList)

\* the for loop over choice.message.tool_calls from its i-th call on, up to
\* the next await: a tool's execute, or the next provider call
RECURSIVE Dispatch(_, _, _)
Dispatch(st, i, toolList) ==
    LET calls == Val(Val(st.response).tool_calls)
    IN  IF i > Len(calls)
        THEN [st EXCEPT !.pc = "awaitProvider", !.i = 0]
        ELSE LET toolCall == calls[i]
                 found == FindTool(toolList, toolCall.name)
                 args == ParseJSON(toolCall.arguments)
             IN  IF toolCall.type # "function"
                 THEN Dispatch(st, i + 1, toolList)
                 ELSE IF ~IsSome(found)
                 THEN Rejected([st EXCEPT !.i = i], ToolNotFoundError(toolCall.name))
                 ELSE IF ~args.ok
                 THEN Rejected([st EXCEPT !.i = i], SyntaxError)
                 ELSE [st EXCEPT
                          !.pc = "awaitTool",
                          !.i = i,
                          !.execs = Append(@, [id |-> toolCall.id,
                                               round |-> Len(st.responses),
                                               tool |-> Val(found),
                                               args |-> args.value,
                                               state |-> "pending",
                                               value |-> NaN])]

\* the return value of send()
AgentResponse(response) ==
    [content |-> IF Truthy(response.content) THEN Val(response.content) ELSE "",
     metadata |-> [id |-> response.id,
                   model |-> response.model,
                   usage |-> response.usage,
                   finishReason |-> response.finish_reason]]

\* the loop taken on the tool calls alone, whatever the finish reason
IsToolRoundAnyReason(response) == IsSome(response.tool_calls)

\* the condition of the while loop:
\* choice.finish_reason === 'tool_calls' && choice.message.tool_calls
IsToolRound(response) ==
    response.finish_reason = "tool_calls" /\ IsSome(response.tool_calls)

\* the usage counters of the responses, added up
RECURSIVE UsageSum(_)
UsageSum(responses) ==
    IF responses = <<>> THEN 0 ELSE Head(responses).usage + UsageSum(Tail(responses))

\* a send() that reports the usage of all its rounds together
OnResponseSummedUsage(st, response, toolList) ==
    LET st1 == [st EXCEPT !.response = Some(response),
                          !.responses = Append(@, response)]
    IN  IF IsToolRound(response)
        THEN Dispatch([st1 EXCEPT !.messages =
                          Append(@, AssistantMsg(response.content,
                                                 Val(response.tool_calls)))],
                      1, toolList)
        ELSE [st1 EXCEPT !.pc = "resolved",
                         !.result = Some([AgentResponse(response) EXCEPT
                                             !.metadata.usage = UsageSum(st1.responses)])]

\* the steps of send() from a provider response to its next await
OnResponse(st, response, toolList) ==
    LET st1 == [st EXCEPT !.response = Some(response),
                          !.responses = Append(@, response)]
    IN  IF IsToolRound(response)
        THEN Dispatch([st1 EXCEPT !.messages =
                          Append(@, AssistantMsg(response.content,
                                                 Val(response.tool_calls)))],
                      1, toolList)
        ELSE [st1 EXCEPT !.pc = "resolved",
                         !.result = Some(AgentResponse(response))]

\* the tool-role entry under the id of the first call of the turn
ToolResultMsgFirstId(st, result) ==
    ToolMsg(Stringify(result), Val(Val(st.response).tool_calls)[1].id)

\* the tool-role entry for the result of the call the loop is at
ToolResultMsg(st, result) ==
    LET toolCall == Val(Val(st.response).tool_calls)[st.i]
    IN  ToolMsg(Stringify(result), toolCall.id)

\* a send() that puts each tool result at the head of the conversation
OnToolResultUnshift(st, toolList) ==
    LET k == Len(st.execs)
        exec == st.execs[k]
        result == Execute(exec.tool, exec.args)
        st1 == [st EXCEPT
                   !.execs[k].state = "resolved",
                   !.execs[k].value = result,
                   !.messages = <<ToolResultMsg(st, result)>> \o @]
    IN  Dispatch(st1, st.i + 1, toolList)

\* the steps of send() from a tool's result to its next await
OnToolResult(st, toolList) ==
    LET k == Len(st.execs)
        exec == st.execs[k]
        result == Execute(exec.tool, exec.args)
        st1 == [st EXCEPT
                   !.execs[k].state = "resolved",
                   !.execs[k].value = result,
                   !.messages = Append(@, ToolResultMsg(st, result))]
    IN  Dispatch(st1, st.i + 1, toolList)

\* the request log after a step that took the call from `before` to `after`
Issued(c, after) ==
    IF after.pc = "awaitProvider"
    THEN Append(provider, [call |-> c, request |-> Request(after, _modelConfig)])
    ELSE provider

Send(c, message) ==
    /\ sends[c].pc = "idle"
    /\ LET st == SendStart(message)
       IN  /\ sends' = [sends EXCEPT ![c] = st]
           /\ provider' = Issued(c, st)
    /\ UNCHANGED <<agentVars, iter, schemaVars, patterns, panelVars>>

ProviderResponds(c, response) ==
    /\ sends[c].pc = "awaitProvider"
    /\ LET st == OnResponse(sends[c], response, _tools)
       IN  /\ sends' = [sends EXCEPT ![c] = st]
           /\ provider' = Issued(c, st)
    /\ UNCHANGED <<agentVars, iter, schemaVars, patterns, panelVars>>

\* a provider failure that leaves the promise of send() unsettled
ProviderFailsSilently(c) ==
    /\ sends[c].pc = "awaitProvider"
    /\ sends' = [sends EXCEPT ![c].pc = "hung"]
    /\ UNCHANGED <<agentVars, provider, iter, schemaVars, patterns, panelVars>>

ProviderFails(c) ==
    /\ sends[c].pc = "awaitProvider"
    /\ sends' = [sends EXCEPT ![c] = Rejected(@, ProviderFailure)]
    /\ UNCHANGED <<agentVars, provider, iter, schemaVars, patterns, panelVars>>

ToolResolves(c) ==
    /\ sends[c].pc = "awaitTool"
    /\ LET st == OnToolResult(sends[c], _tools)
       IN  /\ sends' = [sends EXCEPT ![c] = st]
           /\ provider' = Issued(c, st)
    /\ UNCHANGED <<agentVars, iter, schemaVars, patterns, panelVars>>

\* a failure of execute caught and fed back to the model as a tool result
ToolRejectsFedBack(c) ==
    /\ sends[c].pc = "awaitTool"
    /\ LET k == Len(sends[c].execs)
           st1 == [sends[c] EXCEPT
                      !.execs[k].state = "rejected",
                      !.messages = Append(@, ToolMsg("error", sends[c].execs[k].id))]
           st == Dispatch(st1, st1.i + 1, _tools)
       IN  /\ sends' = [sends EXCEPT ![c] = st]
           /\ provider' = Issued(c, st)
    /\ UNCHANGED <<agentVars, iter, schemaVars, patterns, panelVars>>

ToolRejects(c) ==
    /\ sends[c].pc = "awaitTool"
    /\ LET k == Len(sends[c].execs)
       IN  sends' = [sends EXCEPT
                        ![c] = Rejected([@ EXCEPT !.execs[k].state = "rejected"],
                                        ToolFailure(@.execs[k].tool.name))]
    /\ UNCHANGED <<agentVars, provider, iter, schemaVars, patterns, panelVars>>

(***************************************************************************)
(* stream()                                                                *)
(***************************************************************************)
\* calling an async generator function runs none of its body
Stream ==
    /\ iter.state = "none"
    /\ iter' = [state |-> "suspendedStart", settled |-> <<>>]
    /\ UNCHANGED <<agentVars, sends, provider, schemaVars, patterns, panelVars>>

\* a stream() that checks the API key as send() does before it gives up
StreamNextChecked ==
    /\ iter.state \in {"suspendedStart", "completed"}
    /\ Len(iter.settled) < MaxNextCalls
    /\ iter' = IF iter.state = "suspendedStart"
               THEN [state |-> "completed",
                     settled |-> Append(iter.settled,
                                        [kind |-> "rejected",
                                         error |-> IF Truthy(ApiKey(_config))
                                                   THEN NotImplementedError
                                                   ELSE MissingApiKeyError])]
               ELSE [state |-> "completed",
                     settled |-> Append(iter.settled,
                                        [kind |-> "done", error |-> NotImplementedError])]
    /\ UNCHANGED <<agentVars, sends, provider, schemaVars, patterns, panelVars>>

\* next(): the first call runs the body up to its throw and rejects; the
\* generator is then completed, and later calls resolve with done
StreamNext ==
    /\ iter.state \in {"suspendedStart", "completed"}
    /\ Len(iter.settled) < MaxNextCalls
    /\ iter' = IF iter.state = "suspendedStart"
               THEN [state |-> "completed",
                     settled |-> Append(iter.settled,
                                        [kind |-> "rejected", error |-> NotImplementedError])]
               ELSE [state |-> "completed",
                     settled |-> Append(iter.settled,
                                        [kind |-> "done", error |-> NotImplementedError])]
    /\ UNCHANGED <<agentVars, sends, provider, schemaVars, patterns, panelVars>>

(***************************************************************************)
(* The provider: what chat.completions.create may resolve with.            *)
(***************************************************************************)
\* the tool calls a response may carry (without their ids)
CallKinds ==
    { [type |-> "function", name |-> "add",    arguments |-> ArgsAB],
      [type |-> "function", name |-> "search", arguments |-> ArgsQuery],
      [type |-> "function", name |-> "lookup", arguments |-> ArgsEmpty],
      [type |-> "function", name |-> "add",    arguments |-> ArgsBad],
      [type |-> "function", name |-> "add",    arguments |-> ArgsEmpty],
      [type |-> "function", name |-> "add",    arguments |-> ArgsText],
      [type |-> "custom",   name |-> "add",    arguments |-> ArgsAB] }

\* the lists of at most n tool calls of the r-th response; the provider
\* gives every call an id of its own
CallLists(r, n) ==
    UNION { { [i \in 1..k |-> ToolCall(10 * r + i, kinds[i].type,
                                       kinds[i].name, kinds[i].arguments)]
              : kinds \in [1..k -> CallKinds] }
            : k \in 0..n }

Response(r, finish_reason, content, tool_calls) ==
    [id |-> r, model |-> GPT4 \o <<"-", "0", "6", "1", "3">>, usage |-> 10 * r,
     finish_reason |-> finish_reason, content |-> content, tool_calls |-> tool_calls]

\* a response that ends the loop
FinalResponses(r) ==
    { Response(r, fr, content, None)
        : fr \in {"stop", "length", "tool_calls"}, content \in {None, Some("pong")} }
    \cup { Response(r, "stop", Some("pong"),
                    Some(<<ToolCall(10 * r + 1, "function", "add", ArgsAB)>>)) }

\* a response that asks for at most n tool calls
ToolCallResponses(r, n) ==
    { Response(r, "tool_calls", content, Some(calls))
        : content \in {None}, calls \in CallLists(r, n) }

\* the tool calls a response made the loop take up
Cost(response) ==
    IF response.finish_reason = "tool_calls" /\ IsSome(response.tool_calls)
    THEN IF Len(Val(response.tool_calls)) = 0 THEN 1 ELSE Len(Val(response.tool_calls))
    ELSE 0

RECURSIVE Used(_)
Used(responses) ==
    IF responses = <<>> THEN 0 ELSE Cost(Head(responses)) + Used(Tail(responses))

\* the responses the provider may give to the pending request of a call
\* that may still be asked for `budget` tool calls in all
Responses(st, budget) ==
    LET r == Len(st.responses) + 1
        left == budget - Used(st.responses)
    IN  FinalResponses(r)
        \cup (IF left > 0 THEN ToolCallResponses(r, left) ELSE {})

(***************************************************************************)
(* The runs of the tool-calling loop: an agent is configured and then one  *)
(* send() is made on it.                                                   *)
(***************************************************************************)
ApiKeyEntry == [key |-> "OPENAI_API_KEY", value |-> "sk-test"]

\* send() has not been called yet
Configuring == \A c \in CallIds : sends[c].pc = "idle"

UserMessage == "ping"

Next ==
    \/ Configuring /\ model(GPT4o, Some(Params07))
    \/ Configuring /\ \E text \in {"", "Be terse"} : instructions(text)
    \/ Configuring /\ \E toolList \in {<<>>, <<AddTool, SearchTool>>} : tools(toolList)
    \/ Configuring /\ config(<<ApiKeyEntry>>)
    \/ Send(1, UserMessage)
    \/ \E response \in Responses(sends[1], MaxToolCalls) : ProviderResponds(1, response)
    \/ ProviderFails(1)
    \/ ToolResolves(1)
    \/ ToolRejects(1)

Spec == Init /\ [][Next]_vars

(***************************************************************************)
(* The runs of one send() with collaborators that settle: every awaited    *)
(* create() settles with a response or a failure, every awaited execute    *)
(* settles, and the provider asks for at most MaxLiveCalls tool calls      *)
(* before its final response.  The continuation of an await runs once its  *)
(* promise has settled, hence the weak fairness of the two settlements.    *)
(***************************************************************************)
\* the awaited create() of call c settles
ProviderSettles(c) ==
    \/ \E response \in Responses(sends[c], MaxLiveCalls) : ProviderResponds(c, response)
    \/ ProviderFails(c)

\* the awaited execute of call c settles
ToolSettles(c) == ToolResolves(c) \/ ToolRejects(c)

NextLive ==
    \/ Configuring /\ tools(<<AddTool, SearchTool>>)
    \/ Configuring /\ config(<<ApiKeyEntry>>)
    \/ Send(1, UserMessage)
    \/ ProviderSettles(1)
    \/ ToolSettles(1)

SpecLive ==
    /\ Init /\ [][NextLive]_vars
    /\ WF_vars(ProviderSettles(1))
    /\ WF_vars(ToolSettles(1))

(***************************************************************************)
(* The runs of the precondition checks: every model name and every         *)
(* key-value configuration, with a provider that asks for at most one tool *)
(* call, and stream() called at any time.                                  *)
(***************************************************************************)
ConfigKeys == {"OPENAI_API_KEY", "OPENAI_ORG"}

ConfigValues == {"", "sk-test"}

ConfigEntryLists ==
    UNION { [1..k -> [key : ConfigKeys, value : ConfigValues]] : k \in 0..MaxConfigEntries }

ModelNames == {EmptyName, GPT4, GPT4o, GPT35, Claude3}

NextCfg ==
    \/ Configuring /\ \E name \in ModelNames, params \in {None, Some(Params07)} :
                          model(name, params)
    \/ Configuring /\ instructions("Be terse")
    \/ Configuring /\ tools(<<AddTool>>)
    \/ Configuring /\ \E entries \in ConfigEntryLists : config(entries)
    \/ Send(1, UserMessage)
    \/ \E response \in Responses(sends[1], 1) : ProviderResponds(1, response)
    \/ ProviderFails(1)
    \/ ToolResolves(1)
    \/ ToolRejects(1)
    \/ Stream
    \/ StreamNext

SpecCfg == Init /\ [][NextCfg]_vars

(***************************************************************************)
(* The runs of send() on an agent whose tools may not convert: a validator *)
(* with an undefined _def among them, or a tool without a schema.          *)
(***************************************************************************)
RegisteredTools == {<<AddTool>>, <<AddTool, BrokenTool>>, <<NoSchemaTool>>}

NextConvert ==
    \/ Configuring /\ \E name \in {GPT4o, Claude3} : model(name, None)
    \/ Configuring /\ \E toolList \in RegisteredTools : tools(toolList)
    \/ Configuring /\ config(<<ApiKeyEntry>>)
    \/ Send(1, UserMessage)
    \/ \E response \in Responses(sends[1], 1) : ProviderResponds(1, response)
    \/ ToolResolves(1)

SpecConvert == Init /\ [][NextConvert]_vars

(***************************************************************************)
(* The runs with setters called at any time: before send(), and while it   *)
(* is suspended at a provider call or at a tool's execute.                 *)
(***************************************************************************)
ToolLists == {<<>>, <<AddTool>>, <<AddStrings, AddTool>>}

NextFlight ==
    \/ \E params \in {Some(Params07), Some(Params02)} : model(GPT4o, params)
    \/ instructions("Be terse")
    \/ \E toolList \in ToolLists : tools(toolList)
    \/ config(<<ApiKeyEntry>>)
    \/ Send(1, UserMessage)
    \/ \E response \in Responses(sends[1], 1) : ProviderResponds(1, response)
    \/ ProviderFails(1)
    \/ ToolResolves(1)
    \/ ToolRejects(1)

SpecFlight == Init /\ [][NextFlight]_vars

(***************************************************************************)
(* The runs of two send() calls on one agent: the agent is configured, and *)
(* the two calls are made and go on in any order.  The provider gives the  *)
(* responses and tool calls of each request ids of their own.              *)
(***************************************************************************)
UserMessages == <<"ping", "status">>

\* the response, with ids no response to another call has
Stamp(c, response) ==
    [response EXCEPT
        !.id = 100 * c + @,
        !.tool_calls = IF IsSome(@)
                       THEN Some([i \in 1..Len(Val(@)) |->
                                     [Val(@)[i] EXCEPT !.id = 100 * c + @]])
                       ELSE None]

ResponsesTo(c, budget) == { Stamp(c, response) : response \in Responses(sends[c], budget) }

NextPair ==
    \/ Configuring /\ instructions("Be terse")
    \/ Configuring /\ tools(<<AddTool, SearchTool>>)
    \/ Configuring /\ config(<<ApiKeyEntry>>)
    \/ \E c \in CallIds : Send(c, UserMessages[c])
    \/ \E c \in CallIds : \E response \in ResponsesTo(c, 1) : ProviderResponds(c, response)
    \/ \E c \in CallIds : ProviderFails(c)
    \/ \E c \in CallIds : ToolResolves(c)
    \/ \E c \in CallIds : ToolRejects(c)

SpecPair == Init /\ [][NextPair]_vars

(***************************************************************************)
(* getConfig() and the agent() factory.                                    *)
(***************************************************************************)
\* the model of an AgentConfig: a name, or a ModelDefinition { name, config? }
ModelString(name) == [isString |-> TRUE, name |-> name, config |-> None]

ModelDefinition(name, modelConfig) ==
    [isString |-> FALSE, name |-> name, config |-> modelConfig]

getConfig ==
    [name |-> _name,
     model |-> IF IsSome(_modelConfig)
               THEN ModelDefinition(EffectiveModelName(_modelName), _modelConfig)
               ELSE ModelString(EffectiveModelName(_modelName)),
     instructions |-> _instructions,
     tools |-> _tools]

\* the argument of agent(): a name, or an AgentConfig
NameArg(name) == [isString |-> TRUE, name |-> name, config |-> None]

ConfigArg(agentConfig) ==
    [isString |-> FALSE, name |-> agentConfig.name, config |-> Some(agentConfig)]

\* no send() call is suspended
NoneInFlight == \A c \in CallIds : sends[c].pc \in {"idle", "resolved", "rejected"}

\* agent(nameOrConfig): a new AgentBuilder, set up from the AgentConfig
\* when one is given.  The model goes on with the new agent; what
\* getConfig() returned on the one left behind is kept for comparison.
agent(nameOrConfig) ==
    /\ NoneInFlight
    /\ IF nameOrConfig.isString
       THEN /\ _name' = nameOrConfig.name
            /\ _modelName' = None
            /\ _modelConfig' = None
            /\ _instructions' = None
            /\ _tools' = None
            /\ patterns' = [kind |-> "name", input |-> patterns.input,
                            first |-> Some(getConfig)]
       ELSE LET c == Val(nameOrConfig.config)
            IN  /\ _name' = c.name
                /\ _modelName' = Some(c.model.name)
                /\ _modelConfig' = IF c.model.isString THEN None ELSE c.model.config
                /\ _instructions' = IF Truthy(c.instructions) THEN c.instructions ELSE None
                /\ _tools' = IF IsSome(c.tools) THEN c.tools ELSE None
                /\ patterns' = [kind |-> "config", input |-> Some(c), first |-> None]
    /\ _config' = None
    /\ UNCHANGED <<sends, provider, iter, schemaVars, panelVars>>

(***************************************************************************)
(* The runs of the two patterns: an agent is made from an AgentConfig and  *)
(* used, then an agent is made from the same name and set up with the      *)
(* builder calls model(), instructions() and tools() with the values of    *)
(* that AgentConfig, and used for the same message.                        *)
(***************************************************************************)
ModelRefs ==
    { ModelString(GPT4o), ModelString(EmptyName),
      ModelDefinition(GPT4, None), ModelDefinition(GPT4o, Some(Params07)) }

AgentConfigs ==
    { [name |-> AgentName, model |-> m, instructions |-> text, tools |-> toolList]
        : m \in ModelRefs,
          text \in {None, Some(""), Some("Be terse")},
          toolList \in {None, Some(<<AddTool>>)} }

\* the agent in hand was made by agent(config)
FromConfig == patterns.kind = "config"

\* the agent in hand was made by agent(name) after the one from a config
FromName == patterns.kind = "name" /\ patterns.input # None

\* the builder calls that the AgentConfig has values for were all made
BuilderDone ==
    /\ FromName
    /\ _modelName # None
    /\ IsSome(Val(patterns.input).instructions) => _instructions # None
    /\ IsSome(Val(patterns.input).tools) => _tools # None

NextPatterns ==
    \/ \E c \in AgentConfigs :
           patterns.kind = "name" /\ patterns.input = None /\ agent(ConfigArg(c))
    \/ FromConfig /\ agent(NameArg(Val(patterns.input).name))
    \/ /\ FromName /\ _modelName = None
       /\ LET m == Val(patterns.input).model
          IN  model(m.name, IF m.isString THEN None ELSE m.config)
    \/ /\ FromName /\ _modelName # None /\ _instructions = None
       /\ IsSome(Val(patterns.input).instructions)
       /\ instructions(Val(Val(patterns.input).instructions))
    \/ /\ FromName /\ _modelName # None /\ _tools = None
       /\ IsSome(Val(patterns.input).instructions) => _instructions # None
       /\ IsSome(Val(patterns.input).tools)
       /\ tools(Val(Val(patterns.input).tools))
    \/ (FromConfig \/ FromName) /\ NoneInFlight /\ _config = None /\ config(<<ApiKeyEntry>>)
    \/ FromConfig /\ Send(1, UserMessage)
    \/ BuilderDone /\ Send(2, UserMessage)
    \/ \E c \in CallIds : \E response \in Responses(sends[c], 1) : ProviderResponds(c, response)
    \/ \E c \in CallIds : ProviderFails(c)
    \/ \E c \in CallIds : ToolResolves(c)
    \/ \E c \in CallIds : ToolRejects(c)

SpecPatterns == Init /\ [][NextPatterns]_vars

(***************************************************************************)
(* The runs of config() called again between the send() calls of one       *)
(* agent: every list of entries, before and after each call.               *)
(***************************************************************************)
\* the final response the provider gives in these runs
Pong(c) == Stamp(c, Response(Len(sends[c].responses) + 1, "stop", Some("pong"), None))

NextReplace ==
    \/ NoneInFlight /\ \E entries \in ConfigEntryLists : config(entries)
    \/ \E c \in CallIds : Send(c, UserMessages[c])
    \/ \E c \in CallIds : ProviderResponds(c, Pong(c))

SpecReplace == Init /\ [][NextReplace]_vars

(***************************************************************************)
(* The DevPanel (devpanel.ts).                                             *)
(***************************************************************************)
\* new DevPanel(config), under a value of process.env.NODE_ENV
DevPanel(panelConfig, nodeEnv) ==
    [enabled |-> IF IsSome(panelConfig) /\ IsSome(Val(panelConfig).enabled)
                 THEN Val(Val(panelConfig).enabled)
                 ELSE nodeEnv = "development",
     logLevel |-> IF IsSome(panelConfig) /\ IsSome(Val(panelConfig).logLevel)
                  THEN Val(Val(panelConfig).logLevel)
                  ELSE "normal",
     showTimestamps |-> IF IsSome(panelConfig) /\ IsSome(Val(panelConfig).showTimestamps)
                        THEN Val(Val(panelConfig).showTimestamps)
                        ELSE TRUE,
     events |-> <<>>]

\* a DevPanelEvent; the timestamp is a Date, None for an invalid one
DevPanelEvent(type, timestamp, data) ==
    [type |-> type, timestamp |-> timestamp, data |-> data]

\* what log() prints for an event: nothing for a config event at the
\* minimal log level, a line on the error stream for an error event
Printed(panel, event) ==
    CASE event.type = "config" ->
            IF panel.logLevel # "minimal"
            THEN <<[stream |-> "log", type |-> event.type]>>
            ELSE <<>>
      [] event.type = "error" -> <<[stream |-> "error", type |-> event.type]>>
      [] OTHER -> <<[stream |-> "log", type |-> event.type]>>

\* a log() that records the event whether or not the panel is enabled
LogAlways(event) ==
    /\ panelUse.calls < MaxLogCalls
    /\ LET panel == Val(devPanel)
       IN  /\ devPanel' = Some([panel EXCEPT !.events = Append(@, event)])
           /\ panelUse' = [panelUse EXCEPT
                              !.calls = @ + 1,
                              !.passed = Append(@, event),
                              !.threw = FALSE]
    /\ UNCHANGED <<agentVars, sends, provider, iter, schemaVars, patterns>>

\* log(event): nothing on a disabled panel; else the event is pushed, and
\* then printed, unless toISOString() throws on an invalid timestamp
Log(event) ==
    /\ panelUse.calls < MaxLogCalls
    /\ LET panel == Val(devPanel)
           throws == panel.showTimestamps /\ event.timestamp = None
       IN  IF ~panel.enabled
           THEN /\ devPanel' = devPanel
                /\ panelUse' = [panelUse EXCEPT
                                   !.calls = @ + 1,
                                   !.passed = Append(@, event),
                                   !.threw = FALSE]
           ELSE /\ devPanel' = Some([panel EXCEPT !.events = Append(@, event)])
                /\ panelUse' = [panelUse EXCEPT
                                   !.calls = @ + 1,
                                   !.passed = Append(@, event),
                                   !.threw = throws,
                                   !.printed = IF throws THEN @
                                               ELSE @ \o Printed(panel, event)]
    /\ UNCHANGED <<agentVars, sends, provider, iter, schemaVars, patterns>>

\* getEvents(): a copy of the list
getEvents == Val(devPanel).events

\* clear()
Clear ==
    /\ devPanel' = Some([Val(devPanel) EXCEPT !.events = <<>>])
    /\ panelUse' = [panelUse EXCEPT !.passed = <<>>, !.threw = FALSE]
    /\ UNCHANGED <<agentVars, sends, provider, iter, schemaVars, patterns>>

(***************************************************************************)
(* The runs of a DevPanel: it is made with any configuration, and log()    *)
(* and clear() are called on it in any order.                              *)
(***************************************************************************)
DevPanelConfigs ==
    {None} \cup
    { Some([enabled |-> e, logLevel |-> l, showTimestamps |-> t])
        : e \in {None, Some(TRUE), Some(FALSE)},
          l \in {None, Some("minimal")},
          t \in {None, Some(FALSE)} }

EventTypes == {"config", "message", "tool_call", "response", "error"}

\* the events of a run carry the number of their log() call as data
Events ==
    { DevPanelEvent(type, timestamp, panelUse.calls + 1)
        : type \in EventTypes, timestamp \in {None, Some(1000)} }

InitPanel ==
    /\ _name = AgentName
    /\ _modelName = None
    /\ _modelConfig = None
    /\ _instructions = None
    /\ _tools = None
    /\ _config = None
    /\ sends = [c \in CallIds |-> IdleSend]
    /\ provider = <<>>
    /\ iter = [state |-> "none", settled |-> <<>>]
    /\ schemaIn = None
    /\ schemaOut = None
    /\ patterns = OneAgent
    /\ devPanel \in { Some(DevPanel(panelConfig, nodeEnv))
                        : panelConfig \in DevPanelConfigs,
                          nodeEnv \in {"development", "production"} }
    /\ panelUse = NoPanelUse

NextPanel ==
    \/ \E event \in Events : Log(event)
    \/ Clear

SpecPanel == InitPanel /\ [][NextPanel]_vars

(***************************************************************************)
(* The runs of the schema adapter: a tool with any schema spec of the      *)
(* bounded set is converted to its function declaration.                   *)
(***************************************************************************)
ParamKeys == <<"query", "limit", "page">>

\* { type: 'string' }: a plain JSON Schema fragment, no validator
PlainString == Obj(<<Entry("type", Str("string"))>>)

ParamValues ==
    { ZodString, ZodNumber,
      ZodOptional(ZodString), ZodNullable(ZodString),
      ZodNullable(ZodOptional(ZodString)), ZodOptional(ZodNullable(ZodString)),
      PlainString }

\* one validator or fragment per parameter
ParamSpecs ==
    UNION { { Obj([i \in 1..k |-> Entry(ParamKeys[i], values[i])])
              : values \in [1..k -> ParamValues] }
            : k \in 0..MaxParams }

\* the schema of the `search` tool of the tests: type and properties
SearchSchema ==
    Obj(<<Entry("type", Str("object")),
          Entry("properties", Obj(<<Entry("query", PlainString)>>))>>)

\* the schema of the calculator example: type, properties and required
CalculatorSchema ==
    Obj(<<Entry("type", Str("object")),
          Entry("properties",
                Obj(<<Entry("a", Obj(<<Entry("type", Str("number"))>>)),
                      Entry("b", Obj(<<Entry("type", Str("number"))>>))>>)),
          Entry("required", Arr(<<Str("a"), Str("b")>>))>>)

StructuredSchemas == {SearchSchema, CalculatorSchema}

SchemaSpecs == ParamSpecs \cup StructuredSchemas

\* tool({ name, description, schema, execute })
tool(name, description, schema, impl) ==
    [name |-> name, description |-> description, schema |-> schema, impl |-> impl]

InitSchema ==
    /\ _name = AgentName
    /\ _modelName = None
    /\ _modelConfig = None
    /\ _instructions = None
    /\ _tools = None
    /\ _config = None
    /\ sends = [c \in CallIds |-> IdleSend]
    /\ provider = <<>>
    /\ iter = [state |-> "none", settled |-> <<>>]
    /\ schemaIn \in { Some(tool("search", "Search the web", schema, "search"))
                      : schema \in SchemaSpecs }
    /\ schemaOut = None
    /\ patterns = OneAgent
    /\ devPanel = None
    /\ panelUse = NoPanelUse

ConvertTool ==
    /\ IsSome(schemaIn)
    /\ schemaOut = None
    /\ schemaOut' = Some(convertToOpenAITool(Val(schemaIn)))
    /\ UNCHANGED <<agentVars, sends, provider, iter, schemaIn, patterns, panelVars>>

NextSchema == ConvertTool

SpecSchema == InitSchema /\ [][NextSchema]_vars

(***************************************************************************)
(* Properties.                                                             *)
(***************************************************************************)
\* the requests send() call c has handed to the provider, in order
RequestsOf(c) ==
    LET own == SelectSeq(provider, LAMBDA e : e.call = c)
    IN  [k \in 1..Len(own) |-> own[k].request]

\* the text a response carries: its content, or '' when it has none
TextOf(response) ==
    IF response.content = None THEN "" ELSE Val(response.content)

\* the response asks for tool calls
AsksForTools(response) ==
    response.finish_reason = "tool_calls" /\ response.tool_calls # None

\* the executions of call c that belong to its r-th response
ExecsOfRound(c, r) == SelectSeq(sends[c].execs, LAMBDA e : e.round = r)

\* every function call of the r-th response of call c was executed and resolved
RoundDispatched(c, r) ==
    LET calls == Val(sends[c].responses[r].tool_calls)
    IN  \A j \in 1..Len(calls) :
            calls[j].type = "function" =>
                \E k \in 1..Len(sends[c].execs) :
                    /\ sends[c].execs[k].id = calls[j].id
                    /\ sends[c].execs[k].state = "resolved"

\* C1: when the first n responses ask for tool calls that all dispatch
\* successfully and response n+1 has a finish reason other than tool_calls,
\* send() has issued exactly n+1 provider calls and is resolved with the
\* content of response n+1 (the empty string for a response without
\* content); with n = 0 no tool was executed.
C1_ProviderCallsAndContent ==
    \A c \in CallIds :
        LET st == sends[c]
            m  == Len(st.responses)
        IN  ( /\ m >= 1
              /\ st.responses[m].finish_reason # "tool_calls"
              /\ \A r \in 1..(m - 1) :
                     AsksForTools(st.responses[r]) /\ RoundDispatched(c, r) )
            => /\ st.pc = "resolved"
               /\ Len(RequestsOf(c)) = m
               /\ Val(st.result).content = TextOf(st.responses[m])
               /\ (m = 1 => st.execs = <<>>)

\* a send() that resolved after two tool rounds, and one of them ran a tool
C1_Witness ==
    /\ sends[1].pc = "resolved"
    /\ Len(sends[1].responses) = 3
    /\ sends[1].responses[3].finish_reason = "stop"
    /\ sends[1].responses[3].content = Some("pong")
    /\ Len(sends[1].execs) >= 1

\* the conversation entries of the first n tool rounds of call c, as the
\* provider's responses and the tools' results give them
RECURSIVE RoundEntries(_, _)
RoundEntries(c, n) ==
    IF n = 0
    THEN <<>>
    ELSE LET response == sends[c].responses[n]
             done == SelectSeq(ExecsOfRound(c, n), LAMBDA e : e.state = "resolved")
         IN  RoundEntries(c, n - 1)
             \o << [role |-> "assistant", content |-> response.content,
                    tool_calls |-> response.tool_calls, tool_call_id |-> None] >>
             \o [k \in 1..Len(done) |->
                    [role |-> "tool", content |-> Some(Stringify(done[k].value)),
                     tool_calls |-> None, tool_call_id |-> Some(done[k].id)]]

\* the entries every conversation of call c starts with
HeadEntries(c) ==
    LET text == Val(sends[c].snapshot).instructions
    IN  (IF text # None /\ Val(text) # ""
         THEN << [role |-> "system", content |-> text,
                  tool_calls |-> None, tool_call_id |-> None] >>
         ELSE <<>>)
        \o << [role |-> "user", content |-> Some(sends[c].message),
               tool_calls |-> None, tool_call_id |-> None] >>

\* C2: the message list of the k-th provider request of a send() call is
\* the system entry with the instructions if and only if they are
\* non-empty, then the user entry with the message, then for each of the
\* k-1 completed tool rounds, in order, the assistant entry with that
\* round's tool calls followed by that round's tool-role entries.
C2_MessageOrder ==
    \A c \in CallIds :
        \A k \in 1..Len(RequestsOf(c)) :
            RequestsOf(c)[k].messages = HeadEntries(c) \o RoundEntries(c, k - 1)

\* a third request, with instructions and a round of two tool results
C2_Witness ==
    /\ Len(RequestsOf(1)) = 3
    /\ RequestsOf(1)[3].messages[1].role = "system"
    /\ \E p \in 1..(Len(RequestsOf(1)[3].messages) - 1) :
           /\ RequestsOf(1)[3].messages[p].role = "tool"
           /\ RequestsOf(1)[3].messages[p + 1].role = "tool"

\* the index of the nearest assistant entry before entry p
NearestAssistant(messages, p) ==
    CHOOSE a \in 0..(p - 1) :
        /\ a > 0 => messages[a].role = "assistant"
        /\ \A b \in (a + 1)..(p - 1) : messages[b].role # "assistant"

\* the position in its assistant entry of the call that tool entry p answers
\* (0 when that entry has no call with its id)
CallIndex(messages, p) ==
    LET calls == Val(messages[NearestAssistant(messages, p)].tool_calls)
        id == Val(messages[p].tool_call_id)
    IN  IF \E j \in 1..Len(calls) : calls[j].id = id
        THEN CHOOSE j \in 1..Len(calls) : calls[j].id = id
        ELSE 0

\* C3: every tool-role entry carries the id of the tool call whose
\* execution produced its content; that call is one of the nearest
\* preceding assistant entry, and the tool-role entries of a round are in
\* the order of their calls in that assistant entry.
C3_Correlation ==
    \A c \in CallIds :
        LET messages == sends[c].messages
            toolEntries == {p \in 1..Len(messages) : messages[p].role = "tool"}
        IN  /\ \A p \in toolEntries :
                   /\ NearestAssistant(messages, p) > 0
                   /\ CallIndex(messages, p) > 0
                   /\ \E k \in 1..Len(sends[c].execs) :
                          LET e == sends[c].execs[k]
                              call == Val(messages[NearestAssistant(messages, p)].tool_calls)
                                          [CallIndex(messages, p)]
                          IN  /\ e.id = Val(messages[p].tool_call_id)
                              /\ e.state = "resolved"
                              /\ e.tool.name = call.name
                              /\ messages[p].content = Some(Stringify(e.value))
            /\ \A p, q \in toolEntries :
                   ( /\ p < q
                     /\ NearestAssistant(messages, p) = NearestAssistant(messages, q) )
                   => CallIndex(messages, p) < CallIndex(messages, q)

\* a turn of two calls to different tools, both answered
C3_Witness ==
    \E p \in 2..(Len(sends[1].messages) - 1) :
        /\ sends[1].messages[p - 1].role = "assistant"
        /\ sends[1].messages[p].role = "tool"
        /\ sends[1].messages[p + 1].role = "tool"
        /\ sends[1].messages[p].content # sends[1].messages[p + 1].content

\* the tool calls of the turn call c is in: those of its last response
TurnCalls(c) ==
    LET m == Len(sends[c].responses)
    IN  IF m >= 1 /\ AsksForTools(sends[c].responses[m])
        THEN Val(sends[c].responses[m].tool_calls)
        ELSE <<>>

\* the loop has come to the j-th call of the turn: every function call
\* before it was executed and resolved
ReachedCall(c, j) ==
    \A h \in 1..(j - 1) :
        TurnCalls(c)[h].type = "function" =>
            \E k \in 1..Len(sends[c].execs) :
                /\ sends[c].execs[k].id = TurnCalls(c)[h].id
                /\ sends[c].execs[k].state = "resolved"

\* the agent's tool list holds a tool of that name
Registered(name) ==
    /\ _tools # None
    /\ \E k \in 1..Len(Val(_tools)) : Val(_tools)[k].name = name

C5_ToolFailureIsFatal ==
    \A c \in CallIds :
        \A k \in 1..Len(sends[c].execs) :
            sends[c].execs[k].state = "rejected"
            => /\ sends[c].pc = "rejected"
               /\ sends[c].error = Some(ToolFailure(sends[c].execs[k].tool.name))
               /\ Len(RequestsOf(c)) = Len(sends[c].responses)
               /\ k = Len(sends[c].execs)
               /\ \A p \in 1..Len(sends[c].messages) :
                      sends[c].messages[p].tool_call_id # Some(sends[c].execs[k].id)

\* the first of two calls of a turn failed in its execute
C5_Witness ==
    /\ Len(TurnCalls(1)) = 2
    /\ TurnCalls(1)[2].type = "function"
    /\ Registered(TurnCalls(1)[2].name)
    /\ Len(sends[1].execs) >= 1
    /\ sends[1].execs[Len(sends[1].execs)].state = "rejected"
    /\ sends[1].execs[Len(sends[1].execs)].id = TurnCalls(1)[1].id

\* the configuration gives no usable API key: no map, no entry, or ''
NoApiKey(cfg) ==
    \/ cfg = None
    \/ "OPENAI_API_KEY" \notin DOMAIN Val(cfg)
    \/ Val(cfg)["OPENAI_API_KEY"] = ""

\* the name begins with the five characters of 'gpt-4'
BeginsWithGpt4(name) ==
    /\ Len(name) >= 5
    /\ name[1] = "g" /\ name[2] = "p" /\ name[3] = "t" /\ name[4] = "-" /\ name[5] = "4"

\* the name send() goes by: the configured one, 'gpt-4' for none or ''
NameInEffect(name) ==
    IF name = None \/ Val(name) = <<>> THEN GPT4 ELSE Val(name)

\* send() call c was made
Invoked(c) == sends[c].pc # "idle"

C8_StreamState ==
    /\ \A k \in 1..Len(iter.settled) : iter.settled[k].kind # "yielded"
    /\ Len(iter.settled) >= 1 =>
           iter.settled[1] = [kind |-> "rejected", error |-> NotImplementedError]
    /\ \A c \in CallIds :
           sends[c].error # None => Val(sends[c].error).name # "NotImplementedError"

ExplicitlyOptional(value) == HasKey(value, "_def") /\ MarkedOptional(value)

\* the names in the required list of a function declaration's parameters
RequiredOf(parameters) ==
    IF HasKey(parameters, "required")
    THEN [k \in 1..Len(Get(parameters, "required").kids) |->
             Get(parameters, "required").kids[k].value.s]
    ELSE <<>>

\* C9: for every non-empty schema spec, each parameter that is not marked
\* optional is exactly once in the required list of the output, and no
\* parameter marked optional is in it, for validators and for plain
\* fragments alike.
C9_RequiredSet ==
    ( /\ schemaOut # None
      /\ Val(schemaIn).schema \notin StructuredSchemas
      /\ Len(Val(schemaIn).schema.kids) > 0 )
    => LET schema == Val(schemaIn).schema
           required == RequiredOf(Val(schemaOut).parameters)
       IN  \A i \in 1..Len(schema.kids) :
               Cardinality({k \in 1..Len(required) : required[k] = schema.kids[i].key})
                   = IF ExplicitlyOptional(schema.kids[i].value) THEN 0 ELSE 1

\* C10: a tool whose schema is a structured schema object (type, properties,
\* required) is declared with parameters equal to that object.
C10_StructuredSchemaUnchanged ==
    (schemaOut # None /\ Val(schemaIn).schema \in StructuredSchemas)
    => Val(schemaOut).parameters = Val(schemaIn).schema

\* C11: the adapter returns the empty parameter spec {} as it is: the
\* function declaration of a tool without parameters has the empty object
\* as its parameters, with no type, no properties and no required key,
\* and the tool's name and description.
C11_EmptySchemaUnchanged ==
    (schemaOut # None /\ Len(Val(schemaIn).schema.kids) = 0)
    => /\ Val(schemaOut).parameters = Val(schemaIn).schema
       /\ Val(schemaOut).parameters.t = "object"
       /\ Keys(Val(schemaOut).parameters) = <<>>
       /\ ~HasKey(Val(schemaOut).parameters, "type")
       /\ ~HasKey(Val(schemaOut).parameters, "properties")
       /\ ~HasKey(Val(schemaOut).parameters, "required")
       /\ Val(schemaOut).type = "function"
       /\ Val(schemaOut).name = Val(schemaIn).name

\* a tool without parameters was converted
C11_Witness ==
    /\ schemaOut # None
    /\ Val(schemaIn).schema = Obj(<<>>)
    /\ Val(schemaOut).parameters = Obj(<<>>)

\* the tool list holds no tool of that name before position i
FirstOfName(toolList, i) ==
    \A j \in 1..(i - 1) : toolList[j].name # toolList[i].name

\* the tool a list registered under a name
RegisteredIn(toolList, name) ==
    IF toolList # None /\ \E i \in 1..Len(Val(toolList)) : Val(toolList)[i].name = name
    THEN {Val(toolList)[i] : i \in {j \in 1..Len(Val(toolList)) :
                                      /\ Val(toolList)[j].name = name
                                      /\ FirstOfName(Val(toolList), j)}}
    ELSE {}

\* C12: a send() call in flight is unaffected by setter calls made while
\* it is suspended: all of its provider requests carry the same model
\* name, model parameters and tool declarations, every tool it executes is
\* the one the tool list held under that name when send() was called, and
\* it is rejected with ToolNotFoundError only for a name that list did not
\* hold.
C12_FrozenConfiguration ==
    \A c \in CallIds :
        /\ \A k \in 1..Len(RequestsOf(c)) :
               /\ RequestsOf(c)[k].model = RequestsOf(c)[1].model
               /\ RequestsOf(c)[k].temperature = RequestsOf(c)[1].temperature
               /\ RequestsOf(c)[k].max_tokens = RequestsOf(c)[1].max_tokens
               /\ RequestsOf(c)[k].top_p = RequestsOf(c)[1].top_p
               /\ RequestsOf(c)[k].tools = RequestsOf(c)[1].tools
        /\ \A k \in 1..Len(sends[c].execs) :
               sends[c].execs[k].tool \in
                   RegisteredIn(Val(sends[c].snapshot).tools, sends[c].execs[k].tool.name)
        /\ \A k \in 1..Len(TurnCalls(c)) :
               sends[c].error = Some(ToolNotFoundError(TurnCalls(c)[k].name))
               => RegisteredIn(Val(sends[c].snapshot).tools, TurnCalls(c)[k].name) = {}

\* the ids an entry of a conversation carries: of its tool calls, or of
\* the call it answers
IdsOf(entry) ==
    (IF entry.tool_calls # None
     THEN {Val(entry.tool_calls)[i].id : i \in 1..Len(Val(entry.tool_calls))}
     ELSE {})
    \cup (IF entry.tool_call_id # None THEN {Val(entry.tool_call_id)} ELSE {})

\* the ids the provider gave in its responses to call c
IdsGivenTo(c) ==
    UNION { IF sends[c].responses[r].tool_calls # None
            THEN {Val(sends[c].responses[r].tool_calls)[i].id
                    : i \in 1..Len(Val(sends[c].responses[r].tool_calls))}
            ELSE {}
            : r \in 1..Len(sends[c].responses) }

\* C13: two send() calls in flight on one agent keep separate
\* conversations under every interleaving: every provider request of a
\* call holds that call's own user message, assistant entries and tool
\* results, in order, and no entry that carries the user message or an id
\* of the other call.
C13_SeparateConversations ==
    \A c \in CallIds :
        \A k \in 1..Len(RequestsOf(c)) :
            LET messages == RequestsOf(c)[k].messages
            IN  /\ messages = HeadEntries(c) \o RoundEntries(c, k - 1)
                /\ \A p \in 1..Len(messages) :
                       /\ messages[p].role = "user"
                              => messages[p].content = Some(sends[c].message)
                       /\ IdsOf(messages[p]) \subseteq IdsGivenTo(c)
                       /\ \A d \in CallIds \ {c} :
                              IdsOf(messages[p]) \cap IdsGivenTo(d) = {}
                /\ Cardinality({p \in 1..Len(messages) : messages[p].role = "user"}) = 1

\* both calls are in flight, their requests alternate, and each has sent
\* a tool result back
C13_Witness ==
    /\ Len(provider) = 4
    /\ provider[1].call # provider[2].call
    /\ provider[3].call # provider[4].call
    /\ \A c \in CallIds :
           /\ sends[c].pc = "awaitProvider"
           /\ \E p \in 1..Len(sends[c].messages) : sends[c].messages[p].role = "tool"
    /\ sends[1].messages # sends[2].messages

\* the JSON value is one the validator accepts
RECURSIVE Accepts(_, _)
Accepts(validator, value) ==
    LET def == Get(validator, "_def")
        tn  == Get(def, "typeName").s
    IN  CASE tn = "ZodString" -> value.t = "string"
          [] tn = "ZodNumber" -> value.t = "number"
          [] OTHER -> Accepts(Get(def, "innerType"), value)

\* the arguments satisfy the tool's input schema: every parameter that is
\* present has a value its validator accepts, and only a parameter whose
\* validator is optional is missing
Satisfies(schema, args) ==
    \A i \in 1..Len(schema.kids) :
        LET key == schema.kids[i].key
            validator == schema.kids[i].value
        IN  IF HasKey(args, key)
            THEN Accepts(validator, Get(args, key))
            ELSE Get(Get(validator, "_def"), "typeName").s = "ZodOptional"

\* C14: send() invokes a tool's execute only with arguments that satisfy
\* the tool's input schema: arguments of the model that miss a required
\* parameter or have a value of the wrong type never reach execute.
C14_ValidatedArguments ==
    \A c \in CallIds :
        \A k \in 1..Len(sends[c].execs) :
            Satisfies(sends[c].execs[k].tool.schema, sends[c].execs[k].args)

\* send() call c has ended
Ended(c) == sends[c].pc \in {"resolved", "rejected"}

\* the last provider response of call c has the tool-call finish reason
LastAsksByReason(c) ==
    /\ sends[c].responses # <<>>
    /\ sends[c].responses[Len(sends[c].responses)].finish_reason = "tool_calls"

\* the last provider response of call c carries a list of tool calls
LastHasCallList(c) ==
    /\ sends[c].responses # <<>>
    /\ sends[c].responses[Len(sends[c].responses)].tool_calls # None

\* a call that ended did so with a response or with an error, not both
OneOutcome(c) ==
    /\ sends[c].pc = "resolved" => (sends[c].result # None /\ sends[c].error = None)
    /\ sends[c].pc = "rejected" => (sends[c].error # None /\ sends[c].result = None)
    /\ ~Ended(c) => (sends[c].result = None /\ sends[c].error = None)

\* C15 as stated: send() is resolved with a response only when the last
\* provider response's finish reason is not the tool-call reason; a call
\* that ends in any other way is rejected with an error.
C15_ResolvesOnlyOnOtherReason ==
    \A c \in CallIds :
        /\ OneOutcome(c)
        /\ sends[c].pc = "resolved" => (sends[c].responses # <<>> /\ ~LastAsksByReason(c))
        /\ (Ended(c) /\ (sends[c].responses = <<>> \/ LastAsksByReason(c)))
               => sends[c].pc = "rejected"

\* C15 as amended: send() is resolved with a response only when the last
\* provider response's finish reason is not the tool-call reason or that
\* response carries no tool-call list; a call that ends in any other way
\* is rejected with an error.
C15_ResolvesOnlyOnFinal ==
    \A c \in CallIds :
        /\ OneOutcome(c)
        /\ sends[c].pc = "resolved"
               => /\ sends[c].responses # <<>>
                  /\ ~(LastAsksByReason(c) /\ LastHasCallList(c))
        /\ ( /\ Ended(c)
             /\ \/ sends[c].responses = <<>>
                \/ LastAsksByReason(c) /\ LastHasCallList(c) )
               => sends[c].pc = "rejected"

\* after a tool round, a response with the tool-call reason and no list of
\* calls ended send() with a response
C15_Witness ==
    /\ sends[1].pc = "resolved"
    /\ Len(sends[1].responses) = 2
    /\ Len(sends[1].execs) >= 1
    /\ LastAsksByReason(1)
    /\ ~LastHasCallList(1)

\* C16: the response send() returns is built from the final provider
\* response only: its content is that response's content, or the empty
\* string when that is null or missing, and its metadata holds that
\* response's id, model, usage and finish reason, never those of an
\* earlier round.
C16_ResponseFromFinalReply ==
    \A c \in CallIds :
        sends[c].pc = "resolved" =>
            LET m == Len(sends[c].responses)
                final == sends[c].responses[m]
                result == Val(sends[c].result)
            IN  /\ result.content = TextOf(final)
                /\ final.content = None => result.content = ""
                /\ result.metadata = [id |-> final.id, model |-> final.model,
                                      usage |-> final.usage,
                                      finishReason |-> final.finish_reason]
                /\ \A r \in 1..(m - 1) :
                       /\ result.metadata.id # sends[c].responses[r].id
                       /\ result.metadata.usage # sends[c].responses[r].usage
                       /\ result.metadata.usage < sends[c].responses[r].usage + final.usage

\* send() returned after two tool rounds, on a final response without
\* content
C16_Witness ==
    /\ sends[1].pc = "resolved"
    /\ Len(sends[1].responses) = 3
    /\ sends[1].responses[3].content = None
    /\ Val(sends[1].result).content = ""
    /\ Val(sends[1].result).metadata.id = sends[1].responses[3].id

\* the first k responses of the two calls are the same
SameResponses(k) ==
    /\ Len(sends[1].responses) >= k
    /\ Len(sends[2].responses) >= k
    /\ SubSeq(sends[1].responses, 1, k) = SubSeq(sends[2].responses, 1, k)

\* the two calls were made under the same key-value configuration
SameKeys == Val(sends[1].snapshot).config = Val(sends[2].snapshot).config

\* C17: the builder pattern and the config-object pattern produce the
\* same agent: for every AgentConfig c, getConfig() of agent(c) equals
\* getConfig() of agent(c.name) set up with model(), instructions() and
\* tools() from c's values, and send() of the same message issues the same
\* provider requests on both, as long as the provider answers the same.
C17_PatternsAgree ==
    BuilderDone =>
        /\ getConfig = Val(patterns.first)
        /\ (Invoked(1) /\ Invoked(2) /\ SameKeys) =>
               /\ (RequestsOf(1) = <<>>) = (RequestsOf(2) = <<>>)
               /\ \A k \in 1..Len(RequestsOf(1)) :
                      (k <= Len(RequestsOf(2)) /\ SameResponses(k - 1))
                      => RequestsOf(1)[k] = RequestsOf(2)[k]

\* the positions of the agent's tool list that hold a tool of that name
HoldersOf(name) ==
    IF _tools = None
    THEN {}
    ELSE {i \in 1..Len(Val(_tools)) : Val(_tools)[i].name = name}

\* C18: tool names are unique within an agent: the agent's tool list
\* never holds two tools of the same name, so the name of a tool call
\* resolves to at most one registered tool.
C18_UniqueToolNames ==
    /\ _tools # None =>
           \A i, j \in 1..Len(Val(_tools)) :
               Val(_tools)[i].name = Val(_tools)[j].name => i = j
    /\ \A c \in CallIds :
           \A k \in 1..Len(TurnCalls(c)) :
               Cardinality(HoldersOf(TurnCalls(c)[k].name)) <= 1

\* C19: after any sequence of log() and clear() calls on a DevPanel,
\* getEvents() returns the events passed to log() since the last clear(),
\* in the order they were logged, when the panel is enabled, and the empty
\* list when it is disabled.
C19_EventsSinceClear ==
    getEvents = IF Val(devPanel).enabled THEN panelUse.passed ELSE <<>>

\* an enabled panel that was cleared and then logged two events, one of
\* them with a timestamp that made log() throw
C19_Witness ==
    /\ Val(devPanel).enabled
    /\ panelUse.calls = 3
    /\ Len(getEvents) = 2
    /\ getEvents[1].data = 2
    /\ getEvents[2].data = 3
    /\ panelUse.threw

\* the assistant entries in the conversation of call c: one for every
\* response it took into the tool-dispatch phase
Dispatches(c) ==
    Cardinality({p \in 1..Len(sends[c].messages) : sends[c].messages[p].role = "assistant"})

\* the response carries at least one tool-call entry
HasCalls(response) ==
    response.tool_calls # None /\ Len(Val(response.tool_calls)) >= 1

\* C20: send() enters the tool-dispatch phase only on a response whose
\* finish reason is the tool-call reason and which carries at least one
\* tool-call entry; a response with the tool-call reason and an empty or
\* absent tool-call list is final: send() resolves with it and makes no
\* further provider call.
C20_DispatchNeedsCalls ==
    \A c \in CallIds :
        \A r \in 1..Len(sends[c].responses) :
            LET response == sends[c].responses[r]
            IN  /\ Dispatches(c) >= r
                       => (response.finish_reason = "tool_calls" /\ HasCalls(response))
                /\ (response.finish_reason = "tool_calls" /\ ~HasCalls(response))
                       => /\ r = Len(sends[c].responses)
                          /\ sends[c].pc = "resolved"
                          /\ Len(RequestsOf(c)) = r

\* the tool-role entries of a message list that answer the call of that id
AnswersTo(messages, id) ==
    {p \in 1..Len(messages) :
        messages[p].role = "tool" /\ messages[p].tool_call_id = Some(id)}

\* C21: after each tool-dispatch phase that completes without error, the
\* conversation handed to the next provider request holds exactly one
\* tool-role entry for every tool call of the preceding assistant entry,
\* whatever the call's type.
C21_EveryCallAnswered ==
    \A c \in CallIds :
        \A k \in 2..Len(RequestsOf(c)) :
            LET calls == Val(sends[c].responses[k - 1].tool_calls)
            IN  \A j \in 1..Len(calls) :
                    Cardinality(AnswersTo(RequestsOf(c)[k].messages, calls[j].id)) = 1

\* the argument strings of the runs that are JSON texts
JsonTexts == {ArgsAB, ArgsQuery, ArgsEmpty, ArgsText}

\* an execution or a tool-role entry of call c exists for the call of that id
HandledCall(c, id) ==
    \/ \E k \in 1..Len(sends[c].execs) : sends[c].execs[k].id = id
    \/ AnswersTo(sends[c].messages, id) # {}

\* C22: when the loop comes to a function call whose arguments string is
\* not valid JSON, send() is rejected (with the SyntaxError of the parse
\* when the tool is registered), execute is not invoked for that call, no
\* tool-role entry is appended for it, and no provider call follows the
\* one that returned the call.
C22_UnparsableArguments ==
    \A c \in CallIds :
        \A j \in 1..Len(TurnCalls(c)) :
            ( /\ ReachedCall(c, j)
              /\ TurnCalls(c)[j].type = "function"
              /\ TurnCalls(c)[j].arguments \notin JsonTexts )
            => /\ sends[c].pc = "rejected"
               /\ Registered(TurnCalls(c)[j].name)
                      => sends[c].error = Some(SyntaxError)
               /\ ~HandledCall(c, TurnCalls(c)[j].id)
               /\ Len(RequestsOf(c)) = Len(sends[c].responses)

\* the second call of a turn carries an unparsable arguments string for a
\* registered tool, after the first call of the turn was executed
C22_Witness ==
    /\ Len(TurnCalls(1)) = 2
    /\ TurnCalls(1)[1].type = "function"
    /\ HandledCall(1, TurnCalls(1)[1].id)
    /\ ReachedCall(1, 2)
    /\ TurnCalls(1)[2].type = "function"
    /\ TurnCalls(1)[2].arguments \notin JsonTexts
    /\ Registered(TurnCalls(1)[2].name)
    /\ sends[1].error = Some(SyntaxError)

\* the executions of call c that have not settled
PendingExecs(c) ==
    {k \in 1..Len(sends[c].execs) : sends[c].execs[k].state = "pending"}

\* C23: tool executions never overlap: when an execute is invoked, every
\* execute invoked before it has resolved and its tool-role entry is in the
\* conversation; at most one execution is unsettled, and only while send()
\* awaits it; and a provider request that follows a dispatch phase holds
\* the entry of every function call of that phase.
C23_NoOverlap ==
    \A c \in CallIds :
        /\ \A k \in 1..(Len(sends[c].execs) - 1) :
               /\ sends[c].execs[k].state = "resolved"
               /\ Cardinality(AnswersTo(sends[c].messages, sends[c].execs[k].id)) = 1
        /\ Cardinality(PendingExecs(c)) <= 1
        /\ PendingExecs(c) # {} => sends[c].pc = "awaitTool"
        /\ \A r \in 2..Len(RequestsOf(c)) :
               LET calls == Val(sends[c].responses[r - 1].tool_calls)
               IN  \A j \in 1..Len(calls) :
                       calls[j].type = "function" =>
                           Cardinality(AnswersTo(RequestsOf(c)[r].messages,
                                                 calls[j].id)) = 1

\* the second execute of a turn is awaited after the first resolved
C23_Witness ==
    /\ Len(sends[1].execs) >= 2
    /\ sends[1].pc = "awaitTool"
    /\ LET n == Len(sends[1].execs)
       IN  /\ sends[1].execs[n].round = sends[1].execs[n - 1].round
           /\ sends[1].execs[n].state = "pending"
           /\ sends[1].execs[n - 1].state = "resolved"

\* list a is the beginning of list b
IsPrefix(a, b) == Len(a) <= Len(b) /\ SubSeq(b, 1, Len(a)) = a

\* the message list of each request of a call begins with the whole list of
\* the request before it, and is longer
C24_RequestsGrow ==
    \A c \in CallIds :
        \A k \in 2..Len(RequestsOf(c)) :
            /\ IsPrefix(RequestsOf(c)[k - 1].messages, RequestsOf(c)[k].messages)
            /\ Len(RequestsOf(c)[k - 1].messages) < Len(RequestsOf(c)[k].messages)

\* C24: the conversation of one send() call is append-only: the message
\* list of each provider request has the list of the previous request of
\* the same call as a strict prefix, and no step of a started call removes,
\* changes or reorders an entry the conversation already holds.
C24_AppendOnly ==
    /\ []C24_RequestsGrow
    /\ [][\A c \in CallIds :
              sends[c].pc # "idle" => IsPrefix(sends[c].messages, sends'[c].messages)]_vars

\* a call made three requests, with tool entries between them
C24_Witness ==
    /\ Len(RequestsOf(1)) = 3
    /\ \E p \in 1..Len(RequestsOf(1)[3].messages) :
           RequestsOf(1)[3].messages[p].role = "tool"

\* C25: send() has no iteration cap of its own and still terminates when
\* its collaborators do: when the provider settles every request, asks for
\* tool calls in finitely many rounds only, and every tool execution
\* settles, a send() call that was invoked eventually resolves or rejects.
C25_SendSettles == Invoked(1) ~> Ended(1)

\* the call resolved after as many tool rounds as the provider asked for:
\* one call in each of MaxLiveCalls rounds, then the final response
C25_Witness ==
    /\ sends[1].pc = "resolved"
    /\ Len(sends[1].responses) = MaxLiveCalls + 1
    /\ Len(sends[1].execs) = MaxLiveCalls

\* the tool list the agent had when call c was invoked
ToolsAtCall(c) == Val(sends[c].snapshot).tools

\* C26: every provider request of a send() call omits the tools field when
\* the agent has no tools (the list was never set, or is empty), and
\* otherwise carries exactly one function declaration per registered tool,
\* in registration order, each with that tool's name and description.
C26_ToolsField ==
    \A c \in CallIds :
        \A k \in 1..Len(RequestsOf(c)) :
            LET request == RequestsOf(c)[k]
            IN  IF ToolsAtCall(c) = None \/ Len(Val(ToolsAtCall(c))) = 0
                THEN request.tools = None
                ELSE /\ request.tools # None
                     /\ Len(Val(request.tools)) = Len(Val(ToolsAtCall(c)))
                     /\ \A i \in 1..Len(Val(ToolsAtCall(c))) :
                            /\ Val(request.tools)[i].type = "function"
                            /\ Val(request.tools)[i].name = Val(ToolsAtCall(c))[i].name
                            /\ Val(request.tools)[i].description
                                   = Val(ToolsAtCall(c))[i].description

\* a call of an agent with two tools made two requests, each declaring both
C26_Witness ==
    /\ Len(RequestsOf(1)) = 2
    /\ ToolsAtCall(1) # None
    /\ Len(Val(ToolsAtCall(1))) = 2
    /\ \A k \in 1..2 :
           /\ RequestsOf(1)[k].tools # None
           /\ Len(Val(RequestsOf(1)[k].tools)) = 2

\* the tool's schema is one the adapter cannot convert: it is undefined, or
\* one of its validators has an undefined _def
Malformed(registered) ==
    \/ registered.schema.t = "undefined"
    \/ \E i \in 1..Len(registered.schema.kids) :
           LET value == registered.schema.kids[i].value
           IN  /\ value.t = "object"
               /\ \E j \in 1..Len(value.kids) :
                      value.kids[j].key = "_def" /\ value.kids[j].value.t = "undefined"

\* call c was invoked on an agent with a tool whose schema is malformed
HasMalformedTool(c) ==
    /\ Invoked(c)
    /\ ToolsAtCall(c) # None
    /\ \E i \in 1..Len(Val(ToolsAtCall(c))) : Malformed(Val(ToolsAtCall(c))[i])

\* C27: when the conversion of a registered tool's schema throws, send()
\* is rejected with that failure, before any provider call is issued and
\* before any tool is executed: no request declares the tool, with an empty
\* or partial schema or otherwise.  (A call that fails the model or the key
\* check is rejected before the conversion is attempted.)
C27_ConversionFailurePropagates ==
    \A c \in CallIds :
        HasMalformedTool(c)
        => /\ sends[c].pc = "rejected"
           /\ RequestsOf(c) = <<>>
           /\ sends[c].execs = <<>>
           /\ ( /\ BeginsWithGpt4(NameInEffect(Val(sends[c].snapshot).modelName))
                /\ ~NoApiKey(Val(sends[c].snapshot).config) )
              => sends[c].error = Some(TypeError)

\* a call with a supported model and a key was rejected because the second
\* of its two tools has a malformed validator
C27_Witness ==
    /\ HasMalformedTool(1)
    /\ Len(Val(ToolsAtCall(1))) = 2
    /\ ~Malformed(Val(ToolsAtCall(1))[1])
    /\ sends[1].error = Some(TypeError)

\* the executions of call c for the tool call of that id
ExecsFor(c, id) ==
    {k \in 1..Len(sends[c].execs) : sends[c].execs[k].id = id}

\* send() was rejected at the k-th tool call of the turn: its tool is
\* unknown, its arguments do not parse, or its execute rejected
FailedAt(c, k) ==
    /\ sends[c].pc = "rejected"
    /\ sends[c].i = k
    /\ Val(sends[c].error).name \in {"ToolNotFoundError", "SyntaxError", "ToolFailure"}

\* C28: when the k-th tool call of a turn fails, each of the calls 1..k-1
\* of the turn has been executed exactly once and stays resolved, and no
\* call after the k-th is executed.
C28_EarlierCallsExecuted ==
    \A c \in CallIds :
        \A k \in 1..Len(TurnCalls(c)) :
            FailedAt(c, k)
            => /\ \A h \in 1..(k - 1) :
                      /\ Cardinality(ExecsFor(c, TurnCalls(c)[h].id)) = 1
                      /\ \A e \in ExecsFor(c, TurnCalls(c)[h].id) :
                             sends[c].execs[e].state = "resolved"
               /\ \A h \in (k + 1)..Len(TurnCalls(c)) :
                      ExecsFor(c, TurnCalls(c)[h].id) = {}

\* C29: the precondition checks of send() run model first and credential
\* second: when the model name in effect is unsupported and the API key is
\* also missing, send() is rejected with UnsupportedModelError for that
\* name and not with MissingApiKeyError.
C29_ModelCheckedFirst ==
    \A c \in CallIds :
        ( /\ Invoked(c)
          /\ NoApiKey(Val(sends[c].snapshot).config)
          /\ ~BeginsWithGpt4(NameInEffect(Val(sends[c].snapshot).modelName)) )
        => /\ sends[c].pc = "rejected"
           /\ sends[c].error =
                  Some(UnsupportedModelError(NameInEffect(Val(sends[c].snapshot).modelName)))
           /\ sends[c].error # Some(MissingApiKeyError)

\* send() was called with model claude-3 and no configuration at all
C29_Witness ==
    /\ Invoked(1)
    /\ _config = None
    /\ _modelName = Some(Claude3)
    /\ sends[1].error = Some(UnsupportedModelError(Claude3))

\* the map of a list of entries: each key of the list, under the value of
\* the last entry with that key
LastWins(entries) ==
    [k \in {entries[i].key : i \in 1..Len(entries)} |->
        LET last == CHOOSE i \in 1..Len(entries) :
                        /\ entries[i].key = k
                        /\ \A j \in (i + 1)..Len(entries) : entries[j].key # k
        IN  entries[last].value]

\* a call made with a supported model is rejected with MissingApiKeyError
\* exactly when the map in effect at the call has no OPENAI_API_KEY value
C30_KeyInEffect ==
    \A c \in CallIds :
        ( /\ Invoked(c)
          /\ BeginsWithGpt4(NameInEffect(Val(sends[c].snapshot).modelName)) )
        => ( sends[c].error = Some(MissingApiKeyError)
             <=> NoApiKey(Val(sends[c].snapshot).config) )

\* C30: config() replaces the agent's whole key-value map instead of
\* merging into it: after a config() call the map holds the keys of that
\* call's entries only, each under the value of its last entry, whatever
\* the map held before; a send() made after config(B) goes by B alone, and
\* is rejected with MissingApiKeyError when B has no OPENAI_API_KEY.
C30_ConfigReplaces ==
    /\ []C30_KeyInEffect
    /\ [][\A entries \in ConfigEntryLists :
              config(entries) => _config' = Some(LastWins(entries))]_vars

\* the first call was made with a key and reached the provider; the second,
\* made after a config() without the key, was rejected for the missing key
C30_Witness ==
    /\ Invoked(1) /\ Invoked(2)
    /\ ~NoApiKey(Val(sends[1].snapshot).config)
    /\ Len(RequestsOf(1)) = 1
    /\ Val(sends[2].snapshot).config # None
    /\ DOMAIN Val(Val(sends[2].snapshot).config) = {"OPENAI_ORG"}
    /\ sends[2].error = Some(MissingApiKeyError)

====
